---- MODULE Spec2Model ----
(***************************************************************************)
(* A model of the autore crate: regular expression trees, finite automata  *)
(* (FiniteAutomaton) and the transformations between them.                 *)
(*                                                                         *)
(* Automaton states are natural numbers (AutomatonState = usize).  A       *)
(* transition label (AutomatonTransition) is a natural number: Epsilon is  *)
(* 0 and Symbol(c) is the positive number of the character c ('a' = 1,     *)
(* 'b' = 2), so that the numeric order is the derived Ord of the enum      *)
(* (Epsilon first, then the symbols by character).  A BTreeMap is a        *)
(* function whose DOMAIN is its key set, a BTreeSet is a set; iteration in *)
(* key order is iteration in ascending order.                              *)
(***************************************************************************)
EXTENDS Integers, Sequences, FiniteSets, TLC

VARIABLES
    pc,          \* which value the driver holds: the position in the pipeline
    regex,       \* the Regex the driver holds (its root, or NoRoot)
    automaton,   \* the FiniteAutomaton the driver works on
    prev,        \* the automaton the last operation was applied to
    nfa,         \* the epsilon-free NFA kept beside the DFA (accepts_word_unit_1)
    op,          \* the operation applied last
    query,       \* the arguments symbol and count of the shortest-word query
    result,      \* what the shortest-word query returned
    expr,        \* RegexParser.expr: the text given to from_string
    curr_pos,    \* RegexParser.curr_pos: where the parser stopped reading
    tried_word,  \* the word given to accepts_word
    verdict,     \* what accepts_word returned
    dumped,      \* the text Regex::dump wrote
    calls        \* how many operations were applied in a free sequence of calls

\* the variables of the parser, of accepts_word and of free call sequences
call_vars == <<expr, curr_pos, tried_word, verdict, dumped, calls>>

vars == <<pc, regex, automaton, prev, nfa, op, query, result, call_vars>>

\* no text was parsed, no word was tried, no call was counted
NoCalls ==
    /\ expr = <<>>
    /\ curr_pos = 0
    /\ tried_word = <<>>
    /\ verdict = FALSE
    /\ dumped = <<>>
    /\ calls = 0

(***************************************************************************)
(* Bounds of the model.                                                    *)
(***************************************************************************)
MaxRegexNodes == 5   \* regex trees of Init have at most this many nodes
MaxWordLen == 4      \* words are checked up to this length
NfaStates == 3       \* states of an NFA drawn by an Init
MaxEdges == 3        \* edges of an NFA drawn by an Init
MaxDfaStates == 3    \* states of a total DFA drawn by an Init
MaxQueryEdges == 2   \* edges of an automaton drawn for the shortest-word query
MaxCount == 2        \* the count argument of the shortest-word query

Epsilon == 0
Symbols == {1, 2}    \* the characters of the unit tests, 'a' and 'b'
Labels == {Epsilon} \cup Symbols

Words == UNION {[1..n -> Symbols] : n \in 0..MaxWordLen}

(***************************************************************************)
(* Ordered containers.                                                     *)
(***************************************************************************)
Min(S) == CHOOSE x \in S : \A y \in S : x <= y

RECURSIVE SortedSeq(_)
SortedSeq(S) == IF S = {} THEN <<>> ELSE <<Min(S)>> \o SortedSeq(S \ {Min(S)})

EmptyMap == <<>>

Put(f, k, v) == [x \in DOMAIN f \cup {k} |-> IF x = k THEN v ELSE f[x]]

Remove(f, k) == [x \in DOMAIN f \ {k} |-> f[x]]

Get(f, k, default) == IF k \in DOMAIN f THEN f[k] ELSE default

(***************************************************************************)
(* Regex trees (RegexOps).  A node is a tuple headed by its variant.       *)
(***************************************************************************)
Either(l, r) == <<"Either", l, r>>
Consecutive(l, r) == <<"Consecutive", l, r>>
NoneOrMore(x) == <<"NoneOrMore", x>>
NoneOrOnce(x) == <<"NoneOrOnce", x>>
OnceOrMore(x) == <<"OnceOrMore", x>>
Symbol(c) == <<"Symbol", c>>
EpsilonRegex == <<"Epsilon">>
NoRoot == <<"None">>

(***************************************************************************)
(* FiniteAutomaton and its private helpers.                                *)
(***************************************************************************)
DefaultAutomaton ==
    [last_state |-> 0, start_states |-> {}, accept_states |-> {},
     transitions |-> EmptyMap]

States(A) == DOMAIN A.transitions

\* The new state's id is A.last_state; the result is the automaton after the call.
\* saturating_add only differs from + 1 at usize::MAX, which no run reaches.
add_state(A) ==
    [A EXCEPT !.last_state = A.last_state + 1,
              !.transitions = Put(A.transitions, A.last_state, EmptyMap)]

add_transition(A, from, symbol, to) ==
    LET row == Get(A.transitions, from, EmptyMap)
        dests == Get(row, symbol, {})
    IN [A EXCEPT !.transitions = Put(A.transitions, from, Put(row, symbol, dests \cup {to}))]

remove_state(A, state) ==
    [A EXCEPT !.start_states = A.start_states \ {state},
              !.accept_states = A.accept_states \ {state},
              !.transitions = IF state \in DOMAIN A.transitions
                              THEN Remove(A.transitions, state)
                              ELSE A.transitions]

get_alphabet(A) == UNION {DOMAIN A.transitions[s] : s \in States(A)}

Targets(A, s, label) == Get(A.transitions[s], label, {})

(***************************************************************************)
(* accepts_word: the set of current states is advanced over every          *)
(* character; an empty set rejects at once.                                *)
(***************************************************************************)
\* faulty variant: accepts as soon as the final set of states is non-empty
RECURSIVE accepts_from_any_final_state(_, _, _)
accepts_from_any_final_state(A, curr_states, word) ==
    IF word = <<>>
    THEN curr_states # {}
    ELSE LET next_states == UNION {Targets(A, s, Head(word)) : s \in curr_states}
         IN IF next_states = {} THEN FALSE
            ELSE accepts_from_any_final_state(A, next_states, Tail(word))

RECURSIVE accepts_from(_, _, _)
accepts_from(A, curr_states, word) ==
    IF word = <<>>
    THEN curr_states \cap A.accept_states # {}
    ELSE LET next_states == UNION {Targets(A, s, Head(word)) : s \in curr_states}
         IN IF next_states = {} THEN FALSE
            ELSE accepts_from(A, next_states, Tail(word))

accepts_word(A, word) == accepts_from(A, A.start_states, word)

(***************************************************************************)
(* from_regex / traverse_regex: the Thompson construction.                 *)
(***************************************************************************)
\* faulty variant: NoneOrOnce wired like NoneOrMore, with the edge back
none_or_once_edges_with_back_edge(A, start_state, accept_state, repeat_start, repeat_accept) ==
    LET A1 == add_transition(A, start_state, Epsilon, repeat_start)
        A2 == add_transition(A1, start_state, Epsilon, accept_state)
        A3 == add_transition(A2, repeat_accept, Epsilon, accept_state)
    IN add_transition(A3, repeat_accept, Epsilon, repeat_start)

\* the three epsilon edges of NoneOrOnce (no edge back to repeat_start)
none_or_once_edges(A, start_state, accept_state, repeat_start, repeat_accept) ==
    LET A1 == add_transition(A, start_state, Epsilon, repeat_start)
        A2 == add_transition(A1, start_state, Epsilon, accept_state)
    IN add_transition(A2, repeat_accept, Epsilon, accept_state)

RECURSIVE traverse_regex(_, _, _, _)
traverse_regex(A, curr_op, start_state, accept_state) ==
    CASE curr_op[1] = "Either" ->
            LET left_start == A.last_state
                A1 == add_state(A)
                left_accept == A1.last_state
                A2 == add_state(A1)
                A3 == add_transition(A2, start_state, Epsilon, left_start)
                A4 == add_transition(A3, left_accept, Epsilon, accept_state)
                A5 == traverse_regex(A4, curr_op[2], left_start, left_accept)
                right_start == A5.last_state
                A6 == add_state(A5)
                right_accept == A6.last_state
                A7 == add_state(A6)
                A8 == add_transition(A7, start_state, Epsilon, right_start)
                A9 == add_transition(A8, right_accept, Epsilon, accept_state)
            IN traverse_regex(A9, curr_op[3], right_start, right_accept)
      [] curr_op[1] = "Consecutive" ->
            LET inbetween == A.last_state
                A1 == add_state(A)
                A2 == traverse_regex(A1, curr_op[2], start_state, inbetween)
            IN traverse_regex(A2, curr_op[3], inbetween, accept_state)
      [] curr_op[1] = "NoneOrMore" ->
            LET repeat_start == A.last_state
                A1 == add_state(A)
                repeat_accept == A1.last_state
                A2 == add_state(A1)
                A3 == add_transition(A2, start_state, Epsilon, repeat_start)
                A4 == add_transition(A3, start_state, Epsilon, accept_state)
                A5 == add_transition(A4, repeat_accept, Epsilon, accept_state)
                A6 == add_transition(A5, repeat_accept, Epsilon, repeat_start)
            IN traverse_regex(A6, curr_op[2], repeat_start, repeat_accept)
      [] curr_op[1] = "NoneOrOnce" ->
            LET repeat_start == A.last_state
                A1 == add_state(A)
                repeat_accept == A1.last_state
                A2 == add_state(A1)
                A3 == none_or_once_edges(A2, start_state, accept_state, repeat_start, repeat_accept)
            IN traverse_regex(A3, curr_op[2], repeat_start, repeat_accept)
      [] curr_op[1] = "OnceOrMore" ->
            LET repeat_start == A.last_state
                A1 == add_state(A)
                repeat_accept == A1.last_state
                A2 == add_state(A1)
                A3 == add_transition(A2, start_state, Epsilon, repeat_start)
                A4 == add_transition(A3, repeat_accept, Epsilon, accept_state)
                A5 == add_transition(A4, repeat_accept, Epsilon, repeat_start)
            IN traverse_regex(A5, curr_op[2], repeat_start, repeat_accept)
      [] curr_op[1] = "Symbol" ->
            add_transition(A, start_state, curr_op[2], accept_state)
      [] curr_op[1] = "Epsilon" ->
            add_transition(A, start_state, Epsilon, accept_state)

from_regex(root) ==
    IF root = NoRoot THEN DefaultAutomaton
    ELSE LET start_state == DefaultAutomaton.last_state
             A1 == add_state(DefaultAutomaton)
             A2 == [A1 EXCEPT !.start_states = {start_state}]
             accept_state == A2.last_state
             A3 == add_state(A2)
             A4 == [A3 EXCEPT !.accept_states = A3.accept_states \cup {accept_state}]
         IN traverse_regex(A4, root, start_state, accept_state)

(***************************************************************************)
(* eliminate_dead: a state that is neither a start state nor the target of *)
(* any transition has reference count 0 and is removed.                    *)
(***************************************************************************)
\* faulty variant: only the start states count as referenced
Referenced_start_states_only(A) == A.start_states

Referenced(A) ==
    A.start_states \cup
    UNION {A.transitions[s][l] : <<s, l>> \in
              {<<s, l>> \in States(A) \X Labels : l \in DOMAIN A.transitions[s]}}

RECURSIVE remove_states(_, _)
remove_states(A, states) ==
    IF states = <<>> THEN A
    ELSE remove_states(remove_state(A, Head(states)), Tail(states))

\* faulty variant: no state is removed
eliminate_dead_without_sweep(A) == A

eliminate_dead(A) ==
    LET ref == Referenced(A)
    IN remove_states(A, SortedSeq({s \in States(A) : s \notin ref}))

(***************************************************************************)
(* eliminate_epsilon.  The closure matrix is the set of its true entries.  *)
(* One round of floyd_warshall for a fixed k reads only row k and column k,*)
(* which that round leaves as they are, so the round is one set update.    *)
(***************************************************************************)
RECURSIVE floyd_warshall_from(_, _, _)
floyd_warshall_from(matrix, keys, ks) ==
    IF ks = <<>> THEN matrix
    ELSE LET k == Head(ks)
             into_k == {i \in keys : <<i, k>> \in matrix}
             from_k == {j \in keys : <<k, j>> \in matrix}
             round == matrix \cup {<<i, j>> : i \in into_k, j \in from_k}
         IN floyd_warshall_from(round, keys, Tail(ks))

\* faulty variant: the direct epsilon edges are not closed
floyd_warshall_not_closed(A, matrix) == matrix

floyd_warshall(A, matrix) == floyd_warshall_from(matrix, States(A), SortedSeq(States(A)))

\* Step 1: the direct epsilon edges, closed, are written back as epsilon edges.
epsilon_closed(A) ==
    LET direct == UNION {{<<u, v>> : v \in Targets(A, u, Epsilon)} : u \in States(A)}
        closure == floyd_warshall(A, direct)
    IN [A EXCEPT !.transitions =
           [s \in States(A) |->
               LET to == {v \in States(A) : <<s, v>> \in closure}
               IN IF to = {} THEN A.transitions[s]
                  ELSE Put(A.transitions[s], Epsilon, Targets(A, s, Epsilon) \cup to)]]

\* Step 2: in key order, a state with an epsilon edge into an accept state
\* becomes an accept state (the set grows while the states are visited).
RECURSIVE lift_accepts(_, _, _)
lift_accepts(A, accept, states) ==
    IF states = <<>> THEN accept
    ELSE lift_accepts(A,
             IF Targets(A, Head(states), Epsilon) \cap accept # {}
             THEN accept \cup {Head(states)} ELSE accept,
             Tail(states))

\* Step 3: every edge of an epsilon successor, read from the snapshot, is
\* added to the state itself.
bypass_epsilon(A) ==
    [A EXCEPT !.transitions =
        [s \in States(A) |->
            LET via == Targets(A, s, Epsilon)
                dom == DOMAIN A.transitions[s] \cup UNION {DOMAIN A.transitions[v] : v \in via}
            IN [l \in dom |-> Targets(A, s, l) \cup UNION {Targets(A, v, l) : v \in via}]]]

\* Step 4: the Epsilon key is removed from every state.
strip_epsilon(A) ==
    [A EXCEPT !.transitions =
        [s \in States(A) |-> [l \in DOMAIN A.transitions[s] \ {Epsilon} |-> A.transitions[s][l]]]]

eliminate_epsilon(A) ==
    LET A1 == epsilon_closed(A)
        A2 == [A1 EXCEPT !.accept_states = lift_accepts(A1, A1.accept_states, SortedSeq(States(A1)))]
        A3 == bypass_epsilon(A2)
        A4 == strip_epsilon(A3)
    IN eliminate_dead(A4)

(***************************************************************************)
(* to_dfa: the subset construction.  The loop state holds the DFA built so *)
(* far, the queue of DFA states, the used set and the two mappings.        *)
(***************************************************************************)
\* faulty variant: the symbols of a state are walked from the greatest down
RECURSIVE to_dfa_symbols_descending(_, _, _, _)
to_dfa_symbols_descending(st, curr_state, dfa_nfa_trans, symbols) ==
    IF symbols = <<>> THEN st
    ELSE LET symbol == symbols[Len(symbols)]
             nfa_to == dfa_nfa_trans[symbol]
             known == nfa_to \in DOMAIN st.reverse_mapping
             new_dfa == st.dfa.last_state
             dfa_to == IF known THEN st.reverse_mapping[nfa_to] ELSE new_dfa
             st1 == IF known THEN st
                    ELSE [st EXCEPT !.dfa = add_state(st.dfa),
                                    !.mapping = Put(st.mapping, new_dfa, nfa_to),
                                    !.reverse_mapping = Put(st.reverse_mapping, nfa_to, new_dfa),
                                    !.queue = Append(st.queue, new_dfa)]
             st2 == [st1 EXCEPT !.dfa = add_transition(st1.dfa, curr_state, symbol, dfa_to)]
         IN to_dfa_symbols_descending(st2, curr_state, dfa_nfa_trans,
                                      SubSeq(symbols, 1, Len(symbols) - 1))

RECURSIVE to_dfa_symbols(_, _, _, _)
to_dfa_symbols(st, curr_state, dfa_nfa_trans, symbols) ==
    IF symbols = <<>> THEN st
    ELSE LET symbol == Head(symbols)
             nfa_to == dfa_nfa_trans[symbol]
             known == nfa_to \in DOMAIN st.reverse_mapping
             new_dfa == st.dfa.last_state
             dfa_to == IF known THEN st.reverse_mapping[nfa_to] ELSE new_dfa
             st1 == IF known THEN st
                    ELSE [st EXCEPT !.dfa = add_state(st.dfa),
                                    !.mapping = Put(st.mapping, new_dfa, nfa_to),
                                    !.reverse_mapping = Put(st.reverse_mapping, nfa_to, new_dfa),
                                    !.queue = Append(st.queue, new_dfa)]
             st2 == [st1 EXCEPT !.dfa = add_transition(st1.dfa, curr_state, symbol, dfa_to)]
         IN to_dfa_symbols(st2, curr_state, dfa_nfa_trans, Tail(symbols))

RECURSIVE to_dfa_loop(_, _)
to_dfa_loop(N, st) ==
    IF st.queue = <<>> THEN st
    ELSE LET curr_state == Head(st.queue)
             popped == [st EXCEPT !.queue = Tail(st.queue)]
         IN IF curr_state \in st.used THEN to_dfa_loop(N, popped)
            ELSE LET curr_mapped_to == st.mapping[curr_state]
                     dom == UNION {DOMAIN N.transitions[s] : s \in curr_mapped_to}
                     dfa_nfa_trans ==
                         [symbol \in dom |-> UNION {Targets(N, s, symbol) : s \in curr_mapped_to}]
                     st1 == IF curr_mapped_to \cap N.accept_states # {}
                            THEN [popped EXCEPT !.dfa.accept_states =
                                     popped.dfa.accept_states \cup {curr_state}]
                            ELSE popped
                     st2 == to_dfa_symbols(st1, curr_state, dfa_nfa_trans, SortedSeq(dom))
                 IN to_dfa_loop(N, [st2 EXCEPT !.used = st2.used \cup {curr_state}])

\* faulty variant: the start state of the DFA stands for one start state only
to_dfa_run_one_start(N) ==
    LET start_state == DefaultAutomaton.last_state
        dfa0 == [add_state(DefaultAutomaton) EXCEPT !.start_states = {start_state}]
        first == IF N.start_states = {} THEN {} ELSE {Min(N.start_states)}
    IN to_dfa_loop(N, [dfa |-> dfa0,
                       queue |-> <<start_state>>,
                       used |-> {},
                       mapping |-> Put(EmptyMap, start_state, first),
                       reverse_mapping |-> Put(EmptyMap, first, start_state)])

to_dfa_run(N) ==
    LET start_state == DefaultAutomaton.last_state
        dfa0 == [add_state(DefaultAutomaton) EXCEPT !.start_states = {start_state}]
    IN to_dfa_loop(N, [dfa |-> dfa0,
                       queue |-> <<start_state>>,
                       used |-> {},
                       mapping |-> Put(EmptyMap, start_state, N.start_states),
                       reverse_mapping |-> Put(EmptyMap, N.start_states, start_state)])

to_dfa(N) == to_dfa_run(N).dfa

(***************************************************************************)
(* to_full: one new drain state; every state (the drain too) gets an edge  *)
(* to it on every symbol of the alphabet it has no key for.                *)
(***************************************************************************)
\* faulty variant: the rows are walked as they were before the drain was added
to_full_drain_without_edges(A) ==
    LET alphabet == get_alphabet(A)
        drain == A.last_state
        A1 == add_state(A)
    IN [A1 EXCEPT !.transitions =
           [s \in States(A1) |->
               IF s = drain THEN A1.transitions[s]
               ELSE [l \in DOMAIN A1.transitions[s] \cup alphabet |->
                        IF l \in DOMAIN A1.transitions[s] THEN A1.transitions[s][l]
                        ELSE {drain}]]]

to_full(A) ==
    LET alphabet == get_alphabet(A)
        drain == A.last_state
        A1 == add_state(A)
    IN [A1 EXCEPT !.transitions =
           [s \in States(A1) |->
               [l \in DOMAIN A1.transitions[s] \cup alphabet |->
                   IF l \in DOMAIN A1.transitions[s] THEN A1.transitions[s][l] ELSE {drain}]]]

(***************************************************************************)
(* to_complement.                                                          *)
(***************************************************************************)
\* faulty variant: the filter keeps the accept states instead of the others
to_complement_filter_kept(A) ==
    [A EXCEPT !.accept_states = {state \in States(A) : state \in A.accept_states}]

to_complement(A) ==
    [A EXCEPT !.accept_states = {state \in States(A) : state \notin A.accept_states}]

(***************************************************************************)
(* to_minimal: partition refinement, then one new state per class.  The    *)
(* partition is a BTreeSet of BTreeSets: its classes are visited in the    *)
(* lexicographic order of their sorted members.                            *)
(***************************************************************************)
RECURSIVE SeqLess(_, _)
SeqLess(s, t) ==
    IF t = <<>> THEN FALSE
    ELSE IF s = <<>> THEN TRUE
    ELSE IF Head(s) # Head(t) THEN Head(s) < Head(t)
    ELSE SeqLess(Tail(s), Tail(t))

SetLess(S, T) == SeqLess(SortedSeq(S), SortedSeq(T))

MinSet(P) == CHOOSE S \in P : \A T \in P \ {S} : SetLess(S, T)

RECURSIVE SortedSets(_)
SortedSets(P) == IF P = {} THEN <<>> ELSE <<MinSet(P)>> \o SortedSets(P \ {MinSet(P)})

\* the (class, symbol) pairs pushed for two classes, symbol by symbol
RECURSIVE class_pairs(_, _, _)
class_pairs(first, second, symbols) ==
    IF symbols = <<>> THEN <<>>
    ELSE <<<<first, Head(symbols)>>, <<second, Head(symbols)>>>>
         \o class_pairs(first, second, Tail(symbols))

\* faulty variant: the edges of every symbol are looked at, not those of symbol
splitter_reachable_any_symbol(A, class, splitter, symbol) ==
    {state \in class :
        \E l \in DOMAIN A.transitions[state] : A.transitions[state][l] \cap splitter # {}}

splitter_reachable(A, class, splitter, symbol) ==
    {state \in class : Targets(A, state, symbol) \cap splitter # {}}

RECURSIVE refine_classes(_, _, _, _, _, _)
refine_classes(A, st, classes, splitter, symbol, allphabet) ==
    IF classes = <<>> THEN st
    ELSE LET class == Head(classes)
             reachable == splitter_reachable(A, class, splitter, symbol)
             unreachable == class \ reachable
         IN IF reachable # {} /\ unreachable # {}
            THEN refine_classes(A,
                     [queue |-> st.queue \o class_pairs(reachable, unreachable, allphabet),
                      partition |-> (st.partition \ {class}) \cup {reachable, unreachable}],
                     Tail(classes), splitter, symbol, allphabet)
            ELSE refine_classes(A, st, Tail(classes), splitter, symbol, allphabet)

RECURSIVE refine_loop(_, _, _)
refine_loop(A, st, allphabet) ==
    IF st.queue = <<>> THEN st.partition
    ELSE LET splitter == Head(st.queue)[1]
             symbol == Head(st.queue)[2]
             popped == [st EXCEPT !.queue = Tail(st.queue)]
         IN refine_loop(A,
                refine_classes(A, popped, SortedSets(st.partition), splitter, symbol, allphabet),
                allphabet)

\* faulty variant: accept and other states start in one class
initial_partition_one_class(A) == {States(A)}

initial_partition(A) ==
    {A.accept_states, {state \in States(A) : state \notin A.accept_states}}

final_partition(A) ==
    LET allphabet == SortedSeq(get_alphabet(A))
        accept_class == A.accept_states
        non_accept_class == {state \in States(A) : state \notin A.accept_states}
    IN refine_loop(A, [queue |-> class_pairs(accept_class, non_accept_class, allphabet),
                       partition |-> initial_partition(A)],
                   allphabet)

\* the classes that become states, in the order their states are created
block_classes(partition) == SortedSets(partition)

to_minimal(A) ==
    LET classes == block_classes(final_partition(A))
        n == Len(classes)
        class_state(i) == A.last_state + i - 1
        state_to_class_state ==
            [state \in UNION {classes[i] : i \in 1..n} |->
                class_state(CHOOSE i \in 1..n : state \in classes[i])]
        row(i) ==
            LET dom == UNION {{l \in DOMAIN A.transitions[old] : A.transitions[old][l] # {}} :
                                 old \in classes[i]}
            IN [l \in dom |->
                   {state_to_class_state[t] : t \in UNION {Targets(A, old, l) : old \in classes[i]}}]
    IN [last_state |-> A.last_state + n,
        start_states |-> {state_to_class_state[s] : s \in A.start_states},
        accept_states |-> {state_to_class_state[s] : s \in A.accept_states},
        transitions |-> [c \in {class_state(i) : i \in 1..n} |-> row(c - A.last_state + 1)]]

(***************************************************************************)
(* from_finite_automaton: state elimination.  regular_transitions and      *)
(* reverse_regular_transitions map a state to the regex-labelled edges     *)
(* leaving it and entering it.  The result is the root of the Regex        *)
(* (NoRoot for None), or Panicked when the final unwrap() of the row of    *)
(* new_start fails.                                                        *)
(***************************************************************************)
Panicked == <<"Panic">>

MinTuple(S) == CHOOSE x \in S : \A y \in S \ {x} : SeqLess(x, y)

RECURSIVE SortedTuples(_)
SortedTuples(S) ==
    IF S = {} THEN <<>> ELSE <<MinTuple(S)>> \o SortedTuples(S \ {MinTuple(S)})

symbol_to_regex_ops(symbol) == IF symbol = Epsilon THEN EpsilonRegex ELSE Symbol(symbol)

add_regular_transition(regular_transitions, from, r, to) ==
    LET row == Get(regular_transitions, from, EmptyMap)
    IN Put(regular_transitions, from,
           Put(row, to, IF to \in DOMAIN row THEN Either(r, row[to]) ELSE r))

\* the edges of the automaton in iteration order: by state, label, target
EdgesInOrder(A) ==
    SortedTuples(UNION {UNION {{<<s, l, t>> : t \in A.transitions[s][l]} :
                                  l \in DOMAIN A.transitions[s]} : s \in States(A)})

RECURSIVE index_edges(_, _)
index_edges(st, edges) ==
    IF edges = <<>> THEN st
    ELSE LET e == Head(edges)
             r == symbol_to_regex_ops(e[2])
         IN index_edges(
                [st EXCEPT !.regular = add_regular_transition(st.regular, e[1], r, e[3]),
                           !.reverse = add_regular_transition(st.reverse, e[3], r, e[1])],
                Tail(edges))

\* faulty variant: the self loop of the eliminated state is forgotten
regex_combined_without_loop(from_regex_, self_transition, to_regex) ==
    Consecutive(from_regex_, to_regex)

\* the edge that replaces from -> curr_state -> to
regex_combined(from_regex_, self_transition, to_regex) ==
    IF self_transition # NoRoot
    THEN Consecutive(Consecutive(from_regex_, NoneOrMore(self_transition)), to_regex)
    ELSE Consecutive(from_regex_, to_regex)

\* pairs is the sequence of <<to, from>> in the order of the nested loops
RECURSIVE combine_pairs(_, _, _, _, _)
combine_pairs(st, pairs, incoming, outcoming, self_transition) ==
    IF pairs = <<>> THEN st
    ELSE LET to == Head(pairs)[1]
             from == Head(pairs)[2]
             r == regex_combined(incoming[from], self_transition, outcoming[to])
         IN combine_pairs(
                [st EXCEPT !.regular = add_regular_transition(st.regular, from, r, to),
                           !.reverse = add_regular_transition(st.reverse, to, r, from)],
                Tail(pairs), incoming, outcoming, self_transition)

RECURSIVE eliminate_states(_)
eliminate_states(st) ==
    IF st.queue = <<>> THEN st
    ELSE LET curr_state == Head(st.queue)
             popped == [st EXCEPT !.queue = Tail(st.queue)]
         IN IF curr_state \in st.used THEN eliminate_states(popped)
            ELSE LET outcoming == Get(st.regular, curr_state, EmptyMap)
                     incoming == Get(st.reverse, curr_state, EmptyMap)
                     self_transition == Get(outcoming, curr_state, NoRoot)
                     removed ==
                         [popped EXCEPT
                             !.regular = [x \in DOMAIN st.regular \ {curr_state} |-> st.regular[x]],
                             !.reverse = [x \in DOMAIN st.reverse \ {curr_state} |-> st.reverse[x]]]
                     pairs == SortedTuples({<<to, from>> :
                                  to \in DOMAIN outcoming \ {curr_state},
                                  from \in DOMAIN incoming \ {curr_state}})
                     combined == combine_pairs(removed, pairs, incoming, outcoming, self_transition)
                 IN eliminate_states(
                        [combined EXCEPT
                            !.queue = combined.queue \o SortedSeq(DOMAIN incoming)
                                                     \o SortedSeq(DOMAIN outcoming),
                            !.used = combined.used \cup {curr_state}])

RECURSIVE add_epsilon_edges(_, _, _, _)
add_epsilon_edges(A, states, fixed, outward) ==
    IF states = <<>> THEN A
    ELSE add_epsilon_edges(
             IF outward THEN add_transition(A, fixed, Epsilon, Head(states))
                        ELSE add_transition(A, Head(states), Epsilon, fixed),
             Tail(states), fixed, outward)

\* Steps 1 and 2: one start state without incoming edges, one accept state
\* without outgoing edges
normalized(A) ==
    LET new_start == A.last_state
        A1 == add_state(A)
        old_start == A1.start_states
        A2 == add_epsilon_edges([A1 EXCEPT !.start_states = {new_start}],
                                SortedSeq(old_start), new_start, TRUE)
        new_accept == A2.last_state
        A3 == add_state(A2)
        old_accept == A3.accept_states
    IN add_epsilon_edges([A3 EXCEPT !.accept_states = {new_accept}],
                         SortedSeq(old_accept), new_accept, FALSE)

from_finite_automaton(A) ==
    LET new_start == A.last_state
        new_accept == A.last_state + 1
        B == normalized(A)
        indexed == index_edges([regular |-> EmptyMap, reverse |-> EmptyMap,
                                used |-> {}, queue |-> <<new_start>>],
                               EdgesInOrder(B))
        final == eliminate_states(indexed)
    IN IF new_start \notin DOMAIN final.regular THEN Panicked
       ELSE Get(final.regular[new_start], new_accept, NoRoot)

(***************************************************************************)
(* Regex text.  A text is a sequence of characters; a character is a       *)
(* number: 1 and 2 are 'a' and 'b' as in Symbols, the others follow.       *)
(***************************************************************************)
CharEpsilon == 3      \* the Greek letter U+03B5 that dump writes for Epsilon
CharOne == 4          \* '1'
LeftParen == 5        \* '('
RightParen == 6       \* ')'
Bar == 7              \* '|'
Star == 8             \* '*'
Question == 9         \* '?'
Plus == 10            \* '+'
Space == 11           \* ' '
NonAlphabetic == 12   \* a character that is no letter and no metacharacter

is_alphabetic(c) == c \in Symbols \cup {CharEpsilon}

is_whitespace(c) == c = Space

\* the character at curr_pos is c (chars().nth(curr_pos) is Some(c))
char_at(text, pos, c) == pos < Len(text) /\ text[pos + 1] = c

(***************************************************************************)
(* dump / dump_helper: the text written for a tree.                        *)
(***************************************************************************)
RECURSIVE dump_helper(_)
dump_helper(curr_node) ==
    CASE curr_node[1] = "Either" ->
            <<LeftParen>> \o dump_helper(curr_node[2]) \o <<Space, Bar, Space>>
                \o dump_helper(curr_node[3]) \o <<RightParen>>
      [] curr_node[1] = "Consecutive" ->
            dump_helper(curr_node[2]) \o dump_helper(curr_node[3])
      [] curr_node[1] = "NoneOrMore" ->
            <<LeftParen>> \o dump_helper(curr_node[2]) \o <<RightParen, Star>>
      [] curr_node[1] = "NoneOrOnce" ->
            <<LeftParen>> \o dump_helper(curr_node[2]) \o <<RightParen, Question>>
      [] curr_node[1] = "OnceOrMore" ->
            <<LeftParen>> \o dump_helper(curr_node[2]) \o <<RightParen, Plus>>
      [] curr_node[1] = "Symbol" -> <<curr_node[2]>>
      [] curr_node[1] = "Epsilon" -> <<CharEpsilon>>

\* the content of the file: nothing is written for a Regex without root
dump(root) == IF root = NoRoot THEN <<>> ELSE dump_helper(root)

(***************************************************************************)
(* RegexParser: recursive descent over expr from curr_pos.  A parse        *)
(* function returns the node it built and the position it stopped at, or   *)
(* error when report_error panicked.                                       *)
(***************************************************************************)
ParseError(pos) == [node |-> Panicked, pos |-> pos, error |-> TRUE]

Parsed(node, pos) == [node |-> node, pos |-> pos, error |-> FALSE]

not_whitespace(c) == ~is_whitespace(c)

\* RegexParser::new: whitespace is dropped
parser_new(text) == SelectSeq(text, not_whitespace)

parse_symbol(text, pos) ==
    IF char_at(text, pos, CharOne) THEN Parsed(EpsilonRegex, pos + 1)
    ELSE IF pos < Len(text) THEN Parsed(Symbol(text[pos + 1]), pos + 1)
    ELSE ParseError(pos)

RECURSIVE either_loop_binds_tighter(_, _)
RECURSIVE parse_either(_, _)
RECURSIVE either_loop(_, _)
RECURSIVE parse_consecutive(_, _)
RECURSIVE consecutive_loop(_, _)
RECURSIVE parse_repeat(_, _)
RECURSIVE repeat_loop(_, _)
RECURSIVE parse_priority(_, _)

parse_priority(text, pos) ==
    IF char_at(text, pos, LeftParen)
    THEN LET ret == parse_either(text, pos + 1)
         IN IF ret.error THEN ret
            ELSE IF char_at(text, ret.pos, RightParen) THEN Parsed(ret.node, ret.pos + 1)
            ELSE ParseError(ret.pos)
    ELSE parse_symbol(text, pos)

repeat_loop(text, ret) ==
    IF char_at(text, ret.pos, Star)
    THEN repeat_loop(text, Parsed(NoneOrMore(ret.node), ret.pos + 1))
    ELSE IF char_at(text, ret.pos, Question)
    THEN repeat_loop(text, Parsed(NoneOrOnce(ret.node), ret.pos + 1))
    ELSE IF char_at(text, ret.pos, Plus)
    THEN repeat_loop(text, Parsed(OnceOrMore(ret.node), ret.pos + 1))
    ELSE ret

parse_repeat(text, pos) ==
    LET ret == parse_priority(text, pos)
    IN IF ret.error THEN ret ELSE repeat_loop(text, ret)

consecutive_loop(text, left) ==
    IF left.pos < Len(text)
       /\ (is_alphabetic(text[left.pos + 1]) \/ text[left.pos + 1] = LeftParen)
    THEN LET right == parse_repeat(text, left.pos)
         IN IF right.error THEN right
            ELSE consecutive_loop(text, Parsed(Consecutive(left.node, right.node), right.pos))
    ELSE left

parse_consecutive(text, pos) ==
    LET left == parse_repeat(text, pos)
    IN IF left.error THEN left ELSE consecutive_loop(text, left)

\* faulty variant: the right side of '|' is one repeat, not a concatenation
either_loop_binds_tighter(text, left) ==
    IF char_at(text, left.pos, Bar)
    THEN LET right == parse_repeat(text, left.pos + 1)
         IN IF right.error THEN right
            ELSE either_loop_binds_tighter(text, Parsed(Either(left.node, right.node), right.pos))
    ELSE left

either_loop(text, left) ==
    IF char_at(text, left.pos, Bar)
    THEN LET right == parse_consecutive(text, left.pos + 1)
         IN IF right.error THEN right
            ELSE either_loop(text, Parsed(Either(left.node, right.node), right.pos))
    ELSE left

parse_either(text, pos) ==
    LET left == parse_consecutive(text, pos)
    IN IF left.error THEN left ELSE either_loop(text, left)

\* the root is Some(parse_either()); what follows curr_pos is not looked at
get_regex(text) == parse_either(text, 0)

from_string(text) == get_regex(parser_new(text))

(***************************************************************************)
(* min_word_len_exactly_symbol_count.  A search node is                    *)
(* <<state, label, count, last_met>>.  The counters are usize: with        *)
(* overflow checks (a debug build) a subtraction below zero panics,        *)
(* without them (a release build) it wraps.  A wrapped value 2^64 - d is   *)
(* written -d: the code only subtracts 1 from, adds to and compares with 0 *)
(* such a value, and these agree modulo 2^64 on the small numbers of a run.*)
(***************************************************************************)
NoQuery == [symbol |-> 0, count |-> 0]
NoResult == [panicked |-> FALSE, is_found |-> FALSE, len |-> 0]
QueryPanic == [panicked |-> TRUE, is_found |-> FALSE, len |-> 0]

\* the final (is_found, depth - 1)
query_return(is_found, depth, overflow_checks) ==
    IF overflow_checks /\ depth = 0 THEN QueryPanic
    ELSE [panicked |-> FALSE, is_found |-> is_found, len |-> depth - 1]

\* what is added to depth when the matching node is found
found_depth_increment(curr_level) == IF curr_level = 0 THEN 1 ELSE 0

\* the nodes pushed for the edges of curr_state, by label and target
successors(A, curr_state, curr_count, curr_last_met) ==
    LET edges == SortedTuples(UNION {{<<l, t>> : t \in A.transitions[curr_state][l]} :
                                         l \in DOMAIN A.transitions[curr_state]})
    IN [i \in 1..Len(edges) |-> <<edges[i][2], edges[i][1], curr_count, curr_last_met>>]

\* faulty variant: a gap of states_num hops is cut already
pruned_one_hop_early(curr_count, count, curr_last_met, states_num) ==
    curr_count > count \/ curr_last_met >= states_num

\* the node is dropped: too many occurrences, or too many hops since the last one
pruned(curr_count, count, curr_last_met, states_num) ==
    curr_count > count \/ curr_last_met > states_num

\* one round of the while loop on the loop state st; st.done once it returned
query_step(A, symbol, count, overflow_checks, st) ==
    IF st.queue = <<>>
    THEN [st EXCEPT !.done = TRUE, !.result = query_return(FALSE, st.depth, overflow_checks)]
    ELSE IF overflow_checks /\ st.curr_level = 0
    THEN [st EXCEPT !.done = TRUE, !.result = QueryPanic]
    ELSE LET node == Head(st.queue)
             curr_state == node[1]
             curr_level == st.curr_level - 1
             met == node[2] = symbol
             curr_count == IF met THEN node[3] + 1 ELSE node[3]
             curr_last_met == IF met THEN 0 ELSE node[4] + 1
             states_num == Cardinality(States(A))
         IN IF pruned(curr_count, count, curr_last_met, states_num)
            THEN [st EXCEPT !.queue = Tail(st.queue), !.curr_level = curr_level]
            ELSE IF curr_count = count /\ curr_state \in A.accept_states
            THEN [st EXCEPT !.done = TRUE,
                            !.result = query_return(TRUE,
                                           st.depth + found_depth_increment(curr_level),
                                           overflow_checks)]
            ELSE LET pushed == successors(A, curr_state, curr_count, curr_last_met)
                     next_level == st.next_level + Len(pushed)
                 IN IF curr_level = 0
                    THEN [st EXCEPT !.queue = Tail(st.queue) \o pushed,
                                    !.curr_level = next_level,
                                    !.next_level = 0,
                                    !.depth = st.depth + 1]
                    ELSE [st EXCEPT !.queue = Tail(st.queue) \o pushed,
                                    !.curr_level = curr_level,
                                    !.next_level = next_level]

\* the while loop, evaluated in bursts of rounds to keep the evaluation shallow
RECURSIVE query_rounds(_, _, _, _, _, _)
query_rounds(A, symbol, count, overflow_checks, st, rounds) ==
    IF rounds = 0 \/ st.done THEN st
    ELSE query_rounds(A, symbol, count, overflow_checks,
                      query_step(A, symbol, count, overflow_checks, st), rounds - 1)

RECURSIVE query_loop(_, _, _, _, _)
query_loop(A, symbol, count, overflow_checks, st) ==
    IF st.done THEN st.result
    ELSE query_loop(A, symbol, count, overflow_checks,
                    query_rounds(A, symbol, count, overflow_checks, st, 32))

min_word_len_exactly_symbol_count(A, symbol, count, overflow_checks) ==
    LET starts == SortedSeq(A.start_states)
    IN query_loop(A, symbol, count, overflow_checks,
           [queue |-> [i \in 1..Len(starts) |-> <<starts[i], Epsilon, 0, 0>>],
            curr_level |-> Cardinality(A.start_states),
            next_level |-> 0,
            depth |-> 0,
            done |-> FALSE,
            result |-> NoResult])

(***************************************************************************)
(* Inputs: the regex trees with at most MaxRegexNodes nodes, and the       *)
(* expression of main.rs and of the unit tests, a((ba)*a(ab)* | a)*.       *)
(***************************************************************************)
RegexLeaves == {Symbol(c) : c \in Symbols} \cup {EpsilonRegex}

RECURSIVE RegexOfSize(_)
RegexOfSize(n) ==
    IF n = 1 THEN RegexLeaves
    ELSE {NoneOrMore(x) : x \in RegexOfSize(n - 1)}
         \cup {NoneOrOnce(x) : x \in RegexOfSize(n - 1)}
         \cup {OnceOrMore(x) : x \in RegexOfSize(n - 1)}
         \cup UNION {{Either(l, r) : l \in RegexOfSize(i), r \in RegexOfSize(n - 1 - i)} :
                        i \in 1..(n - 2)}
         \cup UNION {{Consecutive(l, r) : l \in RegexOfSize(i), r \in RegexOfSize(n - 1 - i)} :
                        i \in 1..(n - 2)}

MainRegex ==
    Consecutive(Symbol(1),
        NoneOrMore(Either(
            Consecutive(Consecutive(NoneOrMore(Consecutive(Symbol(2), Symbol(1))), Symbol(1)),
                        NoneOrMore(Consecutive(Symbol(1), Symbol(2)))),
            Symbol(1))))

RegexInputs == UNION {RegexOfSize(n) : n \in 1..MaxRegexNodes} \cup {MainRegex}

(***************************************************************************)
(* The driver of main.rs and accepts_word_unit_1.                          *)
(***************************************************************************)
Init ==
    /\ pc = "regex"
    /\ regex \in RegexInputs
    /\ automaton = DefaultAutomaton
    /\ prev = DefaultAutomaton
    /\ nfa = DefaultAutomaton
    /\ op = "none"
    /\ query = NoQuery
    /\ result = NoResult
    /\ NoCalls

FromRegex ==
    /\ pc = "regex"
    /\ automaton' = from_regex(regex)
    /\ prev' = automaton
    /\ pc' = "nfa"
    /\ op' = "from_regex"
    /\ UNCHANGED <<regex, nfa, query, result, call_vars>>

EliminateEpsilon ==
    /\ pc = "nfa"
    /\ automaton' = eliminate_epsilon(automaton)
    /\ nfa' = automaton'
    /\ prev' = automaton
    /\ pc' = "nfa_free"
    /\ op' = "eliminate_epsilon"
    /\ UNCHANGED <<regex, query, result, call_vars>>

ToDfa ==
    /\ pc = "nfa_free"
    /\ automaton' = to_dfa(automaton)
    /\ prev' = automaton
    /\ pc' = "dfa"
    /\ op' = "to_dfa"
    /\ UNCHANGED <<regex, nfa, query, result, call_vars>>

ToFull ==
    /\ pc = "dfa"
    /\ automaton' = to_full(automaton)
    /\ prev' = automaton
    /\ pc' = "full"
    /\ op' = "to_full"
    /\ UNCHANGED <<regex, nfa, query, result, call_vars>>

ToMinimal ==
    /\ pc = "full"
    /\ automaton' = to_minimal(automaton)
    /\ prev' = automaton
    /\ pc' = "minimal"
    /\ op' = "to_minimal"
    /\ UNCHANGED <<regex, nfa, query, result, call_vars>>

ToComplement ==
    /\ pc \in {"full", "minimal"}
    /\ automaton' = to_complement(automaton)
    /\ prev' = automaton
    /\ pc' = "complement"
    /\ op' = "to_complement"
    /\ UNCHANGED <<regex, nfa, query, result, call_vars>>

Next == FromRegex \/ EliminateEpsilon \/ ToDfa \/ ToFull \/ ToMinimal \/ ToComplement

Spec == Init /\ [][Next]_vars

(***************************************************************************)
(* Automata given directly, as the unit tests build them: the states are   *)
(* 0 .. n-1, last_state is n, and the edges are any set of at most         *)
(* MaxEdges triples, with any set of start states and of accept states.    *)
(***************************************************************************)
RECURSIVE EdgeSets(_, _)
EdgeSets(edges, k) ==
    IF k = 0 THEN {{}}
    ELSE LET smaller == EdgeSets(edges, k - 1)
         IN smaller \cup {E \cup {e} : E \in smaller, e \in edges}

AutomatonOf(n, E, start, accept) ==
    [last_state |-> n,
     start_states |-> start,
     accept_states |-> accept,
     transitions |->
        [s \in 0..(n - 1) |->
            [l \in {e[2] : e \in {e \in E : e[1] = s}} |->
                {e[3] : e \in {e \in E : e[1] = s /\ e[2] = l}}]]]

NfaInputs(labels) ==
    LET states == 0..(NfaStates - 1)
        edges == {<<s, l, t>> : s \in states, l \in labels, t \in states}
    IN {AutomatonOf(NfaStates, E, start, accept) :
           E \in EdgeSets(edges, MaxEdges), start \in SUBSET states, accept \in SUBSET states}

\* automata with epsilon edges (and edges on 'a')
EpsilonNfaInputs == NfaInputs({Epsilon, 1})

\* automata without epsilon edges
EpsilonFreeNfaInputs == NfaInputs(Symbols)

\* total DFAs: one start state, exactly one target for every state and symbol
TotalDfaInputs ==
    UNION {{[last_state |-> n,
             start_states |-> {start},
             accept_states |-> accept,
             transitions |-> [s \in 0..(n - 1) |-> delta[s]]] :
               delta \in UNION {[0..(n - 1) -> [alphabet -> {{t} : t \in 0..(n - 1)}]] :
                                   alphabet \in SUBSET Symbols},
               start \in 0..(n - 1),
               accept \in SUBSET (0..(n - 1))} : n \in 1..MaxDfaStates}

InitGiven(inputs, at) ==
    /\ pc = at
    /\ regex = NoRoot
    /\ automaton \in inputs
    /\ prev = DefaultAutomaton
    /\ nfa = DefaultAutomaton
    /\ op = "none"
    /\ query = NoQuery
    /\ result = NoResult
    /\ NoCalls

\* eliminate_epsilon on any automaton
InitEps == InitGiven(EpsilonNfaInputs, "nfa")
NextEps == EliminateEpsilon
SpecEps == InitEps /\ [][NextEps]_vars

\* the automata of the unit tests nfa_to_dfa_unit_1, _2 and _3, and the start
\* states, accept states and transitions these tests expect of to_dfa
nfa_to_dfa_unit_1_nfa ==
    [last_state |-> 3, start_states |-> {0}, accept_states |-> {2},
     transitions |-> (0 :> (1 :> {0} @@ 2 :> {1}) @@
                      1 :> (1 :> {1, 2} @@ 2 :> {1}) @@
                      2 :> (1 :> {2} @@ 2 :> {1, 2}))]

nfa_to_dfa_unit_1_dfa ==
    [start_states |-> {0}, accept_states |-> {2},
     transitions |-> (0 :> (1 :> {0} @@ 2 :> {1}) @@
                      1 :> (1 :> {2} @@ 2 :> {1}) @@
                      2 :> (1 :> {2} @@ 2 :> {2}))]

nfa_to_dfa_unit_2_nfa ==
    [last_state |-> 3, start_states |-> {0}, accept_states |-> {2},
     transitions |-> (0 :> (1 :> {0} @@ 2 :> {0, 1}) @@
                      1 :> (1 :> {2}) @@
                      2 :> (1 :> {}))]

nfa_to_dfa_unit_2_dfa ==
    [start_states |-> {0}, accept_states |-> {2},
     transitions |-> (0 :> (1 :> {0} @@ 2 :> {1}) @@
                      1 :> (1 :> {2} @@ 2 :> {1}) @@
                      2 :> (1 :> {0} @@ 2 :> {1}))]

nfa_to_dfa_unit_3_nfa ==
    [last_state |-> 6, start_states |-> {0}, accept_states |-> {5},
     transitions |-> (0 :> (1 :> {1} @@ 2 :> {1}) @@
                      1 :> (1 :> {1} @@ 2 :> {1, 2}) @@
                      2 :> (1 :> {3}) @@
                      3 :> (2 :> {4}) @@
                      4 :> (1 :> {5} @@ 2 :> {5}) @@
                      5 :> (1 :> {5} @@ 2 :> {5}))]

nfa_to_dfa_unit_3_dfa ==
    [start_states |-> {0}, accept_states |-> {5, 6, 7, 8},
     transitions |-> (0 :> (1 :> {1} @@ 2 :> {1}) @@
                      1 :> (1 :> {1} @@ 2 :> {2}) @@
                      2 :> (1 :> {3} @@ 2 :> {2}) @@
                      3 :> (1 :> {1} @@ 2 :> {4}) @@
                      4 :> (1 :> {5} @@ 2 :> {6}) @@
                      5 :> (1 :> {7} @@ 2 :> {8}) @@
                      6 :> (1 :> {5} @@ 2 :> {6}) @@
                      7 :> (1 :> {7} @@ 2 :> {6}) @@
                      8 :> (1 :> {5} @@ 2 :> {6}))]

UnitTestNfas == {nfa_to_dfa_unit_1_nfa, nfa_to_dfa_unit_2_nfa, nfa_to_dfa_unit_3_nfa}

\* to_dfa, then to_full, on any epsilon-free automaton, on the automata of the
\* unit tests and on the automaton from_regex makes of a Regex without root
InitDfa ==
    InitGiven(EpsilonFreeNfaInputs \cup UnitTestNfas \cup {from_regex(NoRoot)}, "nfa_free")
NextDfa == ToDfa \/ ToFull
SpecDfa == InitDfa /\ [][NextDfa]_vars

\* from_finite_automaton on any epsilon-free automaton
FromFiniteAutomaton ==
    /\ pc = "nfa_free"
    /\ regex' = from_finite_automaton(automaton)
    /\ pc' = "regex_out"
    /\ op' = "from_finite_automaton"
    /\ UNCHANGED <<automaton, prev, nfa, query, result, call_vars>>

InitElim == InitGiven(EpsilonFreeNfaInputs, "nfa_free")
NextElim == FromFiniteAutomaton
SpecElim == InitElim /\ [][NextElim]_vars

\* the shortest-word query on any epsilon-free automaton with few edges, on the
\* automaton of 0 -a-> 1, 0 -b-> 2 and on the automata of a+b
QueryNfaInputs ==
    LET states == 0..(NfaStates - 1)
        edges == {<<s, l, t>> : s \in states, l \in Symbols, t \in states}
    IN {AutomatonOf(NfaStates, E, start, accept) :
           E \in EdgeSets(edges, MaxQueryEdges), start \in SUBSET states, accept \in SUBSET states}

OnceOrMoreAThenB == Consecutive(OnceOrMore(Symbol(1)), Symbol(2))

OnceOrMoreAThenBInputs ==
    LET N == eliminate_epsilon(from_regex(OnceOrMoreAThenB))
    IN {N, to_dfa(N), to_minimal(to_full(to_dfa(N)))}

InitQuery ==
    /\ pc = "nfa_free"
    /\ regex = NoRoot
    /\ \/ /\ automaton \in QueryNfaInputs
          /\ query \in [symbol : Symbols, count : 0..MaxCount]
       \/ /\ automaton \in OnceOrMoreAThenBInputs
          /\ query \in [symbol : Symbols, count : 0..(MaxCount + 1)]
    /\ prev = DefaultAutomaton
    /\ nfa = DefaultAutomaton
    /\ op = "none"
    /\ result = NoResult
    /\ NoCalls

\* the build decides whether a counter below zero panics or wraps
MinWordLen ==
    /\ pc = "nfa_free"
    /\ \E overflow_checks \in BOOLEAN :
          result' = min_word_len_exactly_symbol_count(automaton, query.symbol, query.count,
                                                      overflow_checks)
    /\ pc' = "answered"
    /\ op' = "min_word_len_exactly_symbol_count"
    /\ UNCHANGED <<regex, automaton, prev, nfa, query, call_vars>>

NextQuery == MinWordLen
SpecQuery == InitQuery /\ [][NextQuery]_vars

\* to_minimal applied to the automaton a first to_minimal returned
ToMinimalAgain ==
    /\ pc = "minimal"
    /\ automaton' = to_minimal(automaton)
    /\ prev' = automaton
    /\ pc' = "minimal_twice"
    /\ op' = "to_minimal_again"
    /\ UNCHANGED <<regex, nfa, query, result, call_vars>>

\* to_minimal (once, and once more) and to_complement on any total DFA
InitMin == InitGiven(TotalDfaInputs, "full")
NextMin == ToMinimal \/ ToMinimalAgain \/ ToComplement
SpecMin == InitMin /\ [][NextMin]_vars

\* accepts_word on any epsilon-free automaton with few edges and any word
AcceptsWord ==
    /\ pc = "nfa_free"
    /\ \E w \in Words :
          /\ tried_word' = w
          /\ verdict' = accepts_word(automaton, w)
    /\ pc' = "tried"
    /\ op' = "accepts_word"
    /\ UNCHANGED <<regex, automaton, prev, nfa, query, result, expr, curr_pos, dumped, calls>>

InitWord == InitGiven(QueryNfaInputs, "nfa_free")
NextWord == AcceptsWord
SpecWord == InitWord /\ [][NextWord]_vars

(***************************************************************************)
(* Regex texts: every text of at most MaxTextLen characters, and the texts *)
(* of the unit tests and of main.rs.                                       *)
(***************************************************************************)
MaxTextLen == 3

TextChars ==
    Symbols \cup {CharEpsilon, CharOne, LeftParen, RightParen, Bar, Star, Question, Plus,
                  Space, NonAlphabetic}

\* (a|b)*ab
UnitTestText == <<LeftParen, 1, Bar, 2, RightParen, Star, 1, 2>>

\* a((ba)*a(ab)* | a)*
MainText ==
    <<1, LeftParen, LeftParen, 2, 1, RightParen, Star, 1, LeftParen, 1, 2, RightParen, Star,
      Space, Bar, Space, 1, RightParen, Star>>

\* a(ba): a group to the right of a symbol
RightNestedText == <<1, LeftParen, 2, 1, RightParen>>

\* A Regex written with the parentheses the grammar needs and no others: the
\* right side of '|' is parenthesized when it is an Either; the left side of
\* a concatenation when it is an Either, its right side when it is an Either
\* or a Consecutive or starts with '1' (which does not continue a
\* concatenation); the operand of '*', '?', '+' when it is an Either or a
\* Consecutive.
MaxWrittenNodes == 5

InParens(text) == <<LeftParen>> \o text \o <<RightParen>>

RECURSIVE Written(_)
Written(node) ==
    LET kind(x) == x[1]
        grouped(x, kinds) ==
            IF kind(x) \in kinds THEN InParens(Written(x)) ELSE Written(x)
        right_of_concat(x) ==
            IF kind(x) \in {"Either", "Consecutive"} \/ Written(x)[1] = CharOne
            THEN InParens(Written(x)) ELSE Written(x)
    IN CASE kind(node) = "Either" ->
                Written(node[2]) \o <<Bar>> \o grouped(node[3], {"Either"})
         [] kind(node) = "Consecutive" ->
                grouped(node[2], {"Either"}) \o right_of_concat(node[3])
         [] kind(node) = "NoneOrMore" ->
                grouped(node[2], {"Either", "Consecutive"}) \o <<Star>>
         [] kind(node) = "NoneOrOnce" ->
                grouped(node[2], {"Either", "Consecutive"}) \o <<Question>>
         [] kind(node) = "OnceOrMore" ->
                grouped(node[2], {"Either", "Consecutive"}) \o <<Plus>>
         [] kind(node) = "Symbol" -> <<node[2]>>
         [] kind(node) = "Epsilon" -> <<CharOne>>

WrittenRegexes == UNION {RegexOfSize(n) : n \in 1..MaxWrittenNodes}

WrittenAs == [node \in WrittenRegexes |-> Written(node)]

WrittenTexts == {WrittenAs[node] : node \in WrittenRegexes}

TextInputs ==
    UNION {[1..n -> TextChars] : n \in 0..MaxTextLen}
        \cup {UnitTestText, MainText, RightNestedText}
        \cup WrittenTexts

InitText ==
    /\ pc = "text"
    /\ regex = NoRoot
    /\ automaton = DefaultAutomaton
    /\ prev = DefaultAutomaton
    /\ nfa = DefaultAutomaton
    /\ op = "none"
    /\ query = NoQuery
    /\ result = NoResult
    /\ expr \in TextInputs
    /\ curr_pos = 0
    /\ tried_word = <<>>
    /\ verdict = FALSE
    /\ dumped = <<>>
    /\ calls = 0

\* Regex::from_string on the text; expr becomes the text without whitespace
FromString ==
    /\ pc = "text"
    /\ LET parsed == from_string(expr)
       IN /\ regex' = parsed.node
          /\ curr_pos' = parsed.pos
    /\ expr' = parser_new(expr)
    /\ pc' = "parsed"
    /\ op' = "from_string"
    /\ UNCHANGED <<automaton, prev, nfa, query, result, tried_word, verdict, dumped, calls>>

\* Regex::dump of the Regex at hand, parsed or made by from_finite_automaton
Dump ==
    /\ pc \in {"parsed", "regex_out"}
    /\ regex # Panicked
    /\ dumped' = dump(regex)
    /\ pc' = IF pc = "parsed" THEN "parsed_dumped" ELSE "regex_out_dumped"
    /\ op' = "dump"
    /\ UNCHANGED <<regex, automaton, prev, nfa, query, result, expr, curr_pos, tried_word,
                   verdict, calls>>

\* Regex::from_string on the text that dump wrote
Reparse ==
    /\ pc \in {"parsed_dumped", "regex_out_dumped"}
    /\ LET parsed == from_string(dumped)
       IN /\ regex' = parsed.node
          /\ curr_pos' = parsed.pos
    /\ pc' = IF pc = "parsed_dumped" THEN "parsed_reparsed" ELSE "regex_out_reparsed"
    /\ op' = "from_string"
    /\ UNCHANGED <<automaton, prev, nfa, query, result, expr, tried_word, verdict, dumped, calls>>

\* a text is parsed, dumped and parsed again
NextText == FromString \/ Dump \/ Reparse
SpecText == InitText /\ [][NextText]_vars

\* an automaton is turned into a Regex, which is dumped and parsed
InitRound == InitGiven(QueryNfaInputs, "nfa_free")
NextRound == FromFiniteAutomaton \/ Dump \/ Reparse
SpecRound == InitRound /\ [][NextRound]_vars

(***************************************************************************)
(* Free sequences of calls: from_regex, then up to MaxCalls calls of the    *)
(* transformations, in any order.                                          *)
(***************************************************************************)
MaxCalls == 3
MaxCallRegexNodes == 3

CallRegexInputs == UNION {RegexOfSize(n) : n \in 1..MaxCallRegexNodes} \cup {NoRoot}

InitCalls ==
    /\ pc = "regex"
    /\ regex \in CallRegexInputs
    /\ automaton = DefaultAutomaton
    /\ prev = DefaultAutomaton
    /\ nfa = DefaultAutomaton
    /\ op = "none"
    /\ query = NoQuery
    /\ result = NoResult
    /\ NoCalls

\* the caller holds an automaton and may still call
CanCall == pc \in {"nfa", "called"} /\ calls < MaxCalls

Called(name) ==
    /\ prev' = automaton
    /\ pc' = "called"
    /\ op' = name
    /\ calls' = calls + 1
    /\ UNCHANGED <<regex, nfa, query, result, expr, curr_pos, tried_word, verdict, dumped>>

CallEliminateEpsilon ==
    /\ CanCall
    /\ automaton' = eliminate_epsilon(automaton)
    /\ Called("eliminate_epsilon")

CallEliminateDead ==
    /\ CanCall
    /\ automaton' = eliminate_dead(automaton)
    /\ Called("eliminate_dead")

CallToDfa ==
    /\ CanCall
    /\ automaton' = to_dfa(automaton)
    /\ Called("to_dfa")

CallToFull ==
    /\ CanCall
    /\ automaton' = to_full(automaton)
    /\ Called("to_full")

CallToMinimal ==
    /\ CanCall
    /\ automaton' = to_minimal(automaton)
    /\ Called("to_minimal")

CallToComplement ==
    /\ CanCall
    /\ automaton' = to_complement(automaton)
    /\ Called("to_complement")

NextCalls ==
    \/ FromRegex
    \/ CallEliminateEpsilon
    \/ CallEliminateDead
    \/ CallToDfa
    \/ CallToFull
    \/ CallToMinimal
    \/ CallToComplement

SpecCalls == InitCalls /\ [][NextCalls]_vars

(***************************************************************************)
(* Reference semantics, independent of the transformations: the words of   *)
(* length at most MaxWordLen a regex tree matches, and the runs of an      *)
(* automaton in which epsilon edges consume nothing.                       *)
(***************************************************************************)
ConcatWords(L1, L2) == {w \in {u \o v : u \in L1, v \in L2} : Len(w) <= MaxWordLen}

RECURSIVE Iterate(_, _)
Iterate(L, acc) ==
    LET next == acc \cup ConcatWords(acc, L)
    IN IF next = acc THEN acc ELSE Iterate(L, next)

RECURSIVE Lang(_)
Lang(R) ==
    CASE R[1] = "Either" -> Lang(R[2]) \cup Lang(R[3])
      [] R[1] = "Consecutive" -> ConcatWords(Lang(R[2]), Lang(R[3]))
      [] R[1] = "NoneOrMore" -> Iterate(Lang(R[2]), {<<>>})
      [] R[1] = "NoneOrOnce" -> Lang(R[2]) \cup {<<>>}
      [] R[1] = "OnceOrMore" -> LET L == Lang(R[2]) IN ConcatWords(L, Iterate(L, {<<>>}))
      [] R[1] = "Symbol" -> {<<R[2]>>}
      [] R[1] = "Epsilon" -> {<<>>}
      [] R[1] = "None" -> {}

RECURSIVE EpsClosure(_, _)
EpsClosure(A, S) ==
    LET next == S \cup UNION {Targets(A, s, Epsilon) : s \in S}
    IN IF next = S THEN S ELSE EpsClosure(A, next)

RECURSIVE EpsRunFrom(_, _, _)
EpsRunFrom(A, curr, word) ==
    IF word = <<>> THEN EpsClosure(A, curr) \cap A.accept_states # {}
    ELSE EpsRunFrom(A, UNION {Targets(A, s, Head(word)) : s \in EpsClosure(A, curr)}, Tail(word))

EpsAccepts(A, word) == EpsRunFrom(A, A.start_states, word)

AcceptedWords(A) == {w \in Words : accepts_word(A, w)}

EpsAcceptedWords(A) == {w \in Words : EpsAccepts(A, w)}

(***************************************************************************)
(* C1.  The epsilon-free NFA N = eliminate_epsilon(from_regex(R)) and the  *)
(* DFA obtained from it by to_dfa, to_full and to_minimal give the same    *)
(* accepts_word verdict on every word; for R = a((ba)*a(ab)*|a)* both      *)
(* accept a and abaaa and reject abaabaab, ababab and abb.                 *)
(***************************************************************************)
MainAccepted == {<<1>>, <<1, 2, 1, 1, 1>>}
MainRejected == {<<1, 2, 1, 1, 2, 1, 1, 2>>, <<1, 2, 1, 2, 1, 2>>, <<1, 2, 2>>}

C1_VerdictAgreement ==
    op = "to_minimal" =>
        /\ \A w \in Words : accepts_word(automaton, w) = accepts_word(nfa, w)
        /\ regex = MainRegex =>
              /\ \A w \in MainAccepted : accepts_word(nfa, w) /\ accepts_word(automaton, w)
              /\ \A w \in MainRejected : ~accepts_word(nfa, w) /\ ~accepts_word(automaton, w)

\* the minimal DFA of the main expression has been built and accepts abaaa
C1_Witness ==
    /\ op = "to_minimal"
    /\ regex = MainRegex
    /\ accepts_word(automaton, <<1, 2, 1, 1, 1>>)
    /\ ~accepts_word(automaton, <<1, 2, 2>>)

(***************************************************************************)
(* C2.  The automaton from_regex(R) has a run from its start state to its  *)
(* accept state spelling w, epsilon edges consuming nothing, exactly when  *)
(* R matches w.                                                            *)
(***************************************************************************)
C2_ThompsonLanguage ==
    op = "from_regex" => EpsAcceptedWords(automaton) = Lang(regex)

\* a Thompson automaton of a starred alternative that matches a two-letter word
C2_Witness ==
    /\ op = "from_regex"
    /\ regex[1] = "NoneOrMore"
    /\ regex[2][1] = "Either"
    /\ <<1, 2>> \in Lang(regex)
    /\ EpsAccepts(automaton, <<1, 2>>)

(***************************************************************************)
(* Shapes of automata.                                                     *)
(***************************************************************************)
EpsilonFree(A) == \A s \in States(A) : Epsilon \notin DOMAIN A.transitions[s]

Deterministic(A) ==
    /\ Cardinality(A.start_states) = 1
    /\ EpsilonFree(A)
    /\ \A s \in States(A) : \A l \in DOMAIN A.transitions[s] :
          Cardinality(A.transitions[s][l]) <= 1

TotalOver(A, alphabet) ==
    \A s \in States(A) : \A l \in alphabet :
        l \in DOMAIN A.transitions[s] /\ Cardinality(A.transitions[s][l]) = 1

TotalDfa(A) == Deterministic(A) /\ TotalOver(A, get_alphabet(A))

(***************************************************************************)
(* C3.  After eliminate_epsilon no state has an Epsilon key, and           *)
(* accepts_word holds of a word exactly when the automaton before the call *)
(* had a run spelling it with epsilon moves allowed.                       *)
(***************************************************************************)
C3_EliminateEpsilonLanguage ==
    op = "eliminate_epsilon" =>
        /\ EpsilonFree(automaton)
        /\ AcceptedWords(automaton) = EpsAcceptedWords(prev)

\* an epsilon cycle through two states, two start states, and a word that is
\* accepted only through epsilon moves
C3_Witness ==
    /\ op = "eliminate_epsilon"
    /\ Cardinality(prev.start_states) = 2
    /\ \E u, v \in States(prev) :
          u # v /\ v \in Targets(prev, u, Epsilon) /\ u \in Targets(prev, v, Epsilon)
    /\ accepts_word(automaton, <<1>>)
    /\ ~accepts_word(prev, <<1>>)

(***************************************************************************)
(* C4.  to_dfa preserves the language of an epsilon-free NFA: the DFA and  *)
(* the NFA give the same accepts_word verdict on every word.               *)
(***************************************************************************)
C4_SubsetLanguage ==
    op = "to_dfa" => AcceptedWords(automaton) = AcceptedWords(prev)

\* an NFA with two start states and a truly nondeterministic edge
C4_Witness ==
    /\ op = "to_dfa"
    /\ Cardinality(prev.start_states) = 2
    /\ \E s \in States(prev) : \E l \in DOMAIN prev.transitions[s] :
          Cardinality(prev.transitions[s][l]) = 2
    /\ accepts_word(automaton, <<1, 2>>)

(***************************************************************************)
(* C5.  to_minimal preserves the language of a total DFA.                  *)
(***************************************************************************)
C5_MinimalLanguage ==
    (op = "to_minimal" /\ TotalDfa(prev)) =>
        AcceptedWords(automaton) = AcceptedWords(prev)

\* three states merged into two, with a word accepted and a word rejected
C5_Witness ==
    /\ op = "to_minimal"
    /\ TotalDfa(prev)
    /\ Cardinality(States(prev)) = 3
    /\ Cardinality(States(automaton)) = 2
    /\ accepts_word(automaton, <<1, 2>>)
    /\ ~accepts_word(automaton, <<2>>)

(***************************************************************************)
(* C7.  After to_full on a DFA produced by to_dfa, every state, the new    *)
(* trap included, has exactly one target for every symbol of the alphabet  *)
(* the DFA had before the call; get_alphabet is unchanged; the trap is not *)
(* an accept state; start_states and accept_states are unchanged.          *)
(***************************************************************************)
C7_CompletionTotal ==
    op = "to_full" =>
        LET drain == prev.last_state
        IN /\ States(automaton) = States(prev) \cup {drain}
           /\ drain \notin States(prev)
           /\ TotalOver(automaton, get_alphabet(prev))
           /\ get_alphabet(automaton) = get_alphabet(prev)
           /\ drain \notin automaton.accept_states
           /\ automaton.start_states = prev.start_states
           /\ automaton.accept_states = prev.accept_states

\* a DFA over both symbols in which a state lacked an edge, now led to the trap
C7_Witness ==
    /\ op = "to_full"
    /\ get_alphabet(prev) = Symbols
    /\ \E s \in States(prev) :
          /\ 1 \notin DOMAIN prev.transitions[s]
          /\ automaton.transitions[s][1] = {prev.last_state}
    /\ automaton.transitions[prev.last_state][2] = {prev.last_state}

(***************************************************************************)
(* C8.  On a total DFA, to_complement flips the accepts_word verdict of    *)
(* every word over the alphabet of the DFA.                                *)
(***************************************************************************)
WordsOver(alphabet) == {w \in Words : \A i \in 1..Len(w) : w[i] \in alphabet}

C8_ComplementFlips ==
    (op = "to_complement" /\ TotalDfa(prev)) =>
        \A w \in WordsOver(get_alphabet(prev)) :
            accepts_word(automaton, w) = ~accepts_word(prev, w)

\* the complement of a three-state total DFA accepts a word the DFA rejected
\* and rejects one it accepted
C8_Witness ==
    /\ op = "to_complement"
    /\ TotalDfa(prev)
    /\ Cardinality(States(prev)) = 3
    /\ accepts_word(prev, <<1, 2>>) /\ ~accepts_word(automaton, <<1, 2>>)
    /\ ~accepts_word(prev, <<2>>) /\ accepts_word(automaton, <<2>>)

(***************************************************************************)
(* The least number of states of a total DFA for the language of a total   *)
(* DFA D over the alphabet of D: the number of classes of states reachable *)
(* from the start state under indistinguishability.                        *)
(***************************************************************************)
RECURSIVE ReachableFrom(_, _)
ReachableFrom(A, S) ==
    LET next == S \cup UNION {UNION {A.transitions[s][l] : l \in DOMAIN A.transitions[s]} : s \in S}
    IN IF next = S THEN S ELSE ReachableFrom(A, next)

Step(A, s, l) == CHOOSE t \in A.transitions[s][l] : TRUE

RECURSIVE Distinguishable(_, _)
Distinguishable(A, D) ==
    LET next == D \cup {p \in States(A) \X States(A) :
                          \E l \in get_alphabet(A) : <<Step(A, p[1], l), Step(A, p[2], l)>> \in D}
    IN IF next = D THEN D ELSE Distinguishable(A, next)

LeastStateCount(A) ==
    LET reach == ReachableFrom(A, A.start_states)
        D == Distinguishable(A, {p \in States(A) \X States(A) :
                                    (p[1] \in A.accept_states) # (p[2] \in A.accept_states)})
    IN Cardinality({{q \in reach : <<p, q>> \notin D} : p \in reach})

(***************************************************************************)
(* C6.  After to_minimal on a total DFA D the automaton has the least      *)
(* number of states of any total DFA over the same alphabet accepting      *)
(* L(D), also when all states of D are accepting, none is, or D has a      *)
(* state unreachable from the start.                                       *)
(***************************************************************************)
C6_MinimalIsLeast ==
    (op = "to_minimal" /\ TotalDfa(prev)) =>
        Cardinality(States(automaton)) = LeastStateCount(prev)

(***************************************************************************)
(* C9, the language reading alone.  For an epsilon-free automaton A that   *)
(* accepts at least one word, the regex tree from_finite_automaton(A)      *)
(* matches a word exactly when accepts_word(A, w).                         *)
(***************************************************************************)
AcceptsSomeWord(A) == ReachableFrom(A, A.start_states) \cap A.accept_states # {}

C9_StateEliminationLanguage ==
    (op = "from_finite_automaton" /\ EpsilonFree(automaton) /\ AcceptsSomeWord(automaton)) =>
        /\ regex # Panicked
        /\ regex # NoRoot
        /\ Lang(regex) = AcceptedWords(automaton)

\* a state with a self loop was eliminated between the start and the accept state
C9_Witness ==
    /\ op = "from_finite_automaton"
    /\ automaton.start_states = {0}
    /\ automaton.accept_states = {2}
    /\ 1 \in Targets(automaton, 1, 2)
    /\ regex # Panicked
    /\ <<1, 2, 2, 1>> \in Lang(regex)
    /\ <<1, 1>> \in Lang(regex)
    /\ <<1>> \notin Lang(regex)

MinimalTotalDfa(N) == to_minimal(to_full(to_dfa(N)))

Isomorphic(A, B) ==
    /\ Cardinality(States(A)) = Cardinality(States(B))
    /\ \E f \in [States(A) -> States(B)] :
          /\ {f[s] : s \in States(A)} = States(B)
          /\ {f[s] : s \in A.start_states} = B.start_states
          /\ {f[s] : s \in A.accept_states} = B.accept_states
          /\ \A s \in States(A) :
                /\ DOMAIN A.transitions[s] = DOMAIN B.transitions[f[s]]
                /\ \A l \in DOMAIN A.transitions[s] :
                      {f[t] : t \in A.transitions[s][l]} = B.transitions[f[s]][l]

(***************************************************************************)
(* C9 as stated.  For an epsilon-free automaton A that accepts at least    *)
(* one word, from_finite_automaton(A) matches exactly the words A accepts, *)
(* and the minimal total DFA rebuilt from it (from_regex,                  *)
(* eliminate_epsilon, to_dfa, to_full, to_minimal) is isomorphic to the    *)
(* minimal total DFA of A.                                                 *)
(***************************************************************************)
C9_LanguageAndIsomorphism ==
    (op = "from_finite_automaton" /\ EpsilonFree(automaton) /\ AcceptsSomeWord(automaton)) =>
        /\ regex # Panicked
        /\ regex # NoRoot
        /\ Lang(regex) = AcceptedWords(automaton)
        /\ Isomorphic(MinimalTotalDfa(eliminate_epsilon(from_regex(regex))),
                      MinimalTotalDfa(automaton))

(***************************************************************************)
(* The least length of an accepted word with exactly k occurrences of x,   *)
(* by layers of (state, occurrences so far); -1 when there is none.  A     *)
(* shortest such word visits no (state, occurrences) pair twice.           *)
(***************************************************************************)
RECURSIVE LeastLenFrom(_, _, _, _, _)
LeastLenFrom(A, x, k, layer, len) ==
    IF \E p \in layer : p[1] \in A.accept_states /\ p[2] = k THEN len
    ELSE IF len >= Cardinality(States(A)) * (k + 1) \/ layer = {} THEN -1
    ELSE LeastLenFrom(A, x, k,
             UNION {UNION {{<<t, IF l = x THEN p[2] + 1 ELSE p[2]>> : t \in A.transitions[p[1]][l]} :
                              l \in {l \in DOMAIN A.transitions[p[1]] : l # x \/ p[2] < k}} :
                       p \in layer},
             len + 1)

LeastLen(A, x, k) == LeastLenFrom(A, x, k, {<<s, 0>> : s \in A.start_states}, 0)

(***************************************************************************)
(* C10.  When the automaton accepts some word with exactly k occurrences   *)
(* of x, min_word_len_exactly_symbol_count returns (true, n) with n the    *)
(* least length of such a word, wherever the first matching node lies in   *)
(* its BFS level.                                                          *)
(***************************************************************************)
C10_QueryReturnsMinimum ==
    (op = "min_word_len_exactly_symbol_count"
        /\ LeastLen(automaton, query.symbol, query.count) >= 0) =>
        result = [panicked |-> FALSE, is_found |-> TRUE,
                  len |-> LeastLen(automaton, query.symbol, query.count)]

(***************************************************************************)
(* C11.  Whenever min_word_len_exactly_symbol_count returns, its first     *)
(* component is true exactly when the automaton accepts some word with     *)
(* exactly k occurrences of x: pruning on count > k and on gaps longer     *)
(* than the number of states never discards the only witnesses.            *)
(***************************************************************************)
C11_ExistenceFlag ==
    (op = "min_word_len_exactly_symbol_count" /\ ~result.panicked) =>
        result.is_found = (LeastLen(automaton, query.symbol, query.count) >= 0)

\* a loop on the other symbol makes the search endless without the pruning on
\* gaps; the word with two occurrences is found all the same
C11_Witness ==
    /\ op = "min_word_len_exactly_symbol_count"
    /\ ~result.panicked
    /\ result.is_found
    /\ query.count = 2
    /\ \E s \in States(automaton) : \E l \in Symbols \ {query.symbol} :
          s \in Targets(automaton, s, l)
    /\ LeastLen(automaton, query.symbol, query.count) >= 2

(***************************************************************************)
(* The paths of an automaton that spell a word: the sequences of states    *)
(* from a start state along edges labelled by the characters of the word.  *)
(***************************************************************************)
RECURSIVE PathsSpelling(_, _)
PathsSpelling(A, w) ==
    IF w = <<>> THEN {<<s>> : s \in A.start_states}
    ELSE LET shorter == PathsSpelling(A, SubSeq(w, 1, Len(w) - 1))
         IN UNION {{Append(p, t) : t \in Targets(A, p[Len(p)], w[Len(w)])} : p \in shorter}

HasAcceptingPath(A, w) == \E p \in PathsSpelling(A, w) : p[Len(p)] \in A.accept_states

(***************************************************************************)
(* C12.  On an automaton without epsilon edges accepts_word(A, w) is true  *)
(* exactly when some path labelled w leads from a start state to an accept *)
(* state: a word whose paths all end outside accept_states is rejected, a  *)
(* word with no path is rejected, and the empty word is accepted exactly   *)
(* when some start state is accepting.                                     *)
(***************************************************************************)
C12_MembershipSemantics ==
    (op = "accepts_word" /\ EpsilonFree(automaton)) =>
        /\ verdict = HasAcceptingPath(automaton, tried_word)
        /\ PathsSpelling(automaton, tried_word) = {} => ~verdict
        /\ tried_word = <<>> => verdict = (automaton.start_states \cap automaton.accept_states # {})

\* a two-letter word with a path from one of two start states, none of them
\* ending in the accept state the automaton has: rejected
C12_Witness ==
    /\ op = "accepts_word"
    /\ Len(tried_word) = 2
    /\ Cardinality(automaton.start_states) = 2
    /\ automaton.accept_states # {}
    /\ PathsSpelling(automaton, tried_word) # {}
    /\ ~verdict

(***************************************************************************)
(* C13.  For an automaton A, the Regex obtained by parsing the text that   *)
(* dump writes for from_finite_automaton(A) matches exactly the words A    *)
(* accepts (the text written for Epsilon nodes parses as Epsilon again).   *)
(***************************************************************************)
C13_AutomatonTextRoundTrip ==
    pc = "regex_out_reparsed" =>
        /\ regex # Panicked
        /\ Lang(regex) = AcceptedWords(automaton)

(***************************************************************************)
(* The characters carried by the Symbol leaves of a tree, and the texts    *)
(* of the grammar: those the parser reads to the end without a panic and   *)
(* without taking a metacharacter for a symbol.                            *)
(***************************************************************************)
MetaChars == {Bar, LeftParen, RightParen, Star, Question, Plus, CharOne}

RECURSIVE SymbolsOf(_)
SymbolsOf(node) ==
    CASE node[1] \in {"Either", "Consecutive"} -> SymbolsOf(node[2]) \cup SymbolsOf(node[3])
      [] node[1] \in {"NoneOrMore", "NoneOrOnce", "OnceOrMore"} -> SymbolsOf(node[2])
      [] node[1] = "Symbol" -> {node[2]}
      [] OTHER -> {}

InGrammar(text) ==
    LET parsed == from_string(text)
    IN /\ ~parsed.error
       /\ parsed.pos = Len(parser_new(text))
       /\ SymbolsOf(parsed.node) \cap MetaChars = {}

(***************************************************************************)
(* C14.  For a regex text R of the grammar, parsing the text that dump     *)
(* writes for from_string(R) gives a tree structurally equal to            *)
(* from_string(R), also for texts with '1', with a group to the right of   *)
(* a symbol, and with non-alphabetic symbols.                              *)
(***************************************************************************)
C14_TextRoundTrip ==
    (pc = "parsed_reparsed" /\ InGrammar(expr)) => regex = from_string(expr).node

(***************************************************************************)
(* C20.  from_string panics on malformed text: when it returns a tree, the *)
(* parentheses of the text are balanced, the text was read to its end, and *)
(* no Symbol node carries a metacharacter.                                 *)
(***************************************************************************)
RECURSIVE BalancedFrom(_, _)
BalancedFrom(text, depth) ==
    IF text = <<>> THEN depth = 0
    ELSE IF Head(text) = LeftParen THEN BalancedFrom(Tail(text), depth + 1)
    ELSE IF Head(text) = RightParen THEN depth > 0 /\ BalancedFrom(Tail(text), depth - 1)
    ELSE BalancedFrom(Tail(text), depth)

C20_MalformedRejected ==
    (pc = "parsed" /\ op = "from_string" /\ regex # Panicked) =>
        /\ BalancedFrom(expr, 0)
        /\ curr_pos = Len(expr)
        /\ SymbolsOf(regex) \cap MetaChars = {}

(***************************************************************************)
(* C15.  to_dfa returns the subset automaton of the reachable subsets,      *)
(* numbered breadth first: the states are 0 .. n-1 and 0 is the only start *)
(* state; no edge is an epsilon edge and every edge has one target; every  *)
(* state d stands for a subset of NFA states, state 0 for the start states *)
(* of the NFA and the target of d on l for the states the subset of d      *)
(* reaches on l; two states never stand for the same subset; d is          *)
(* accepting exactly when its subset holds an accept state of the NFA; and *)
(* the ids follow the order of first discovery, states taken in the order  *)
(* of their ids and symbols in ascending order.  The automata of the three *)
(* unit tests give the DFAs these tests expect.                            *)
(***************************************************************************)
Move(N, S, l) == UNION {Targets(N, s, l) : s \in S}

\* the subsets the states of D stand for, found by walking the edges of D from
\* state 0, one layer of new states at a time
RECURSIVE SubsetLabelsFrom(_, _, _)
SubsetLabelsFrom(N, D, f) ==
    LET fresh == UNION {UNION {D.transitions[d][l] : l \in DOMAIN D.transitions[d]} :
                           d \in DOMAIN f} \ DOMAIN f
        from(e) == CHOOSE d \in DOMAIN f :
                       \E l \in DOMAIN D.transitions[d] : e \in D.transitions[d][l]
        on(e) == CHOOSE l \in DOMAIN D.transitions[from(e)] : e \in D.transitions[from(e)][l]
    IN IF fresh = {} THEN f
       ELSE SubsetLabelsFrom(N, D,
                [e \in DOMAIN f \cup fresh |->
                    IF e \in DOMAIN f THEN f[e] ELSE Move(N, f[from(e)], on(e))])

SubsetLabels(N, D) == SubsetLabelsFrom(N, D, 0 :> N.start_states)

\* the first edge into state e, edges taken by source id, then by symbol
FirstParent(D, e) ==
    Min({d \in States(D) : \E l \in DOMAIN D.transitions[d] : e \in D.transitions[d][l]})

FirstSymbol(D, e) ==
    Min({l \in DOMAIN D.transitions[FirstParent(D, e)] : e \in D.transitions[FirstParent(D, e)][l]})

BreadthFirstNumbered(D) ==
    /\ \A e \in States(D) \ {0} :
          /\ \E d \in States(D) : \E l \in DOMAIN D.transitions[d] : e \in D.transitions[d][l]
          /\ FirstParent(D, e) < e
    /\ \A e1, e2 \in States(D) \ {0} :
          e1 < e2 =>
              \/ FirstParent(D, e1) < FirstParent(D, e2)
              \/ /\ FirstParent(D, e1) = FirstParent(D, e2)
                 /\ FirstSymbol(D, e1) < FirstSymbol(D, e2)

SameAsExpected(D, expected) ==
    /\ D.start_states = expected.start_states
    /\ D.accept_states = expected.accept_states
    /\ D.transitions = expected.transitions

C16_NonEmptySubsets ==
    op = "to_dfa" =>
        \A d \in States(automaton) : SubsetLabels(prev, automaton)[d] # {}

(***************************************************************************)
(* C17.  to_minimal is idempotent up to renaming: for a total DFA, the      *)
(* automaton to_minimal makes of the output of to_minimal has as many      *)
(* states as that output and equals it under a bijection of the state ids  *)
(* that preserves the start states, the accept states and the edges.       *)
(***************************************************************************)
C17_MinimalIdempotent ==
    op = "to_minimal_again" =>
        /\ Cardinality(States(automaton)) = Cardinality(States(prev))
        /\ Isomorphic(automaton, prev)

(***************************************************************************)
(* C18.  Referential integrity (I1) holds after every sequence of calls of *)
(* from_regex, eliminate_epsilon, eliminate_dead, to_dfa, to_full,         *)
(* to_minimal and to_complement: every start state, every accept state and *)
(* every target of an edge is a key of transitions.                        *)
(***************************************************************************)
I1(A) ==
    /\ A.start_states \subseteq States(A)
    /\ A.accept_states \subseteq States(A)
    /\ \A s \in States(A) : \A l \in DOMAIN A.transitions[s] :
          A.transitions[s][l] \subseteq States(A)

C18_ReferentialIntegrity == op # "none" => I1(automaton)

\* a third call, eliminate_dead, that removed a state of an automaton with a
\* start state and an accept state
C18_Witness ==
    /\ op = "eliminate_dead"
    /\ calls = MaxCalls
    /\ States(automaton) # States(prev)
    /\ automaton.start_states # {}
    /\ automaton.accept_states # {}

(***************************************************************************)
(* C19.  to_complement of a DFA that is not total is refused: when some    *)
(* state of the DFA has no edge on some symbol of the alphabet, the call   *)
(* leaves the automaton as it was.                                         *)
(***************************************************************************)
C19_ComplementGuarded ==
    (op = "to_complement" /\ Deterministic(prev) /\ ~TotalOver(prev, get_alphabet(prev))) =>
        automaton = prev

(***************************************************************************)
(* C21.  from_string parses '*', '?', '+' tighter than concatenation and   *)
(* concatenation tighter than '|', and groups '|' and concatenation to the *)
(* left: the text of a Regex written with the parentheses these rules need *)
(* and no others is parsed, to its end, into that Regex; (a|b)*ab is       *)
(* parsed into Consecutive(Consecutive(NoneOrMore(Either(a, b)), a), b).   *)
(***************************************************************************)
UnitTestRegex ==
    Consecutive(Consecutive(NoneOrMore(Either(Symbol(1), Symbol(2))), Symbol(1)), Symbol(2))

C21_PrecedenceAssociativity ==
    (pc = "parsed" /\ op = "from_string") =>
        /\ \A node \in WrittenRegexes :
              expr = WrittenAs[node] => regex = node /\ curr_pos = Len(expr)
        /\ expr = UnitTestText => regex = UnitTestRegex

\* a|ba: the concatenation is the right side of '|'
C21_Witness ==
    /\ pc = "parsed"
    /\ op = "from_string"
    /\ expr = <<1, Bar, 2, 1>>
    /\ regex = Either(Symbol(1), Consecutive(Symbol(2), Symbol(1)))

(***************************************************************************)
(* C22.  to_minimal makes exactly one new state for every block of the     *)
(* final partition that is not empty, and none for an empty block: when    *)
(* the accept states are no state or every state, no state is made for the *)
(* empty initial block.                                                    *)
(***************************************************************************)
C22_EmptyBlocksDropped ==
    op = "to_minimal" =>
        Cardinality(States(automaton)) = Cardinality(final_partition(prev) \ {{}})

(***************************************************************************)
(* C23.  to_minimal keeps a total DFA total and deterministic: after it    *)
(* the automaton has one start state and every state has exactly one       *)
(* target on every symbol of the alphabet; no state id of the automaton    *)
(* before the call is left, and every target is the id of a new state.     *)
(***************************************************************************)
C23_MinimalStaysTotal ==
    (op = "to_minimal" /\ TotalDfa(prev)) =>
        /\ Cardinality(automaton.start_states) = 1
        /\ TotalOver(automaton, get_alphabet(prev))
        /\ get_alphabet(automaton) = get_alphabet(prev)
        /\ Deterministic(automaton)
        /\ States(automaton) \cap States(prev) = {}
        /\ \A s \in States(automaton) : \A l \in DOMAIN automaton.transitions[s] :
              \A t \in automaton.transitions[s][l] :
                  t \in States(automaton) /\ t >= prev.last_state

(***************************************************************************)
(* C24.  One sweep of dead states is enough after eliminate_epsilon of a    *)
(* Thompson automaton: for every Regex, after eliminate_epsilon of         *)
(* from_regex every state left is reachable from the start state, the      *)
(* start state is still there, and eliminate_dead removes no state.        *)
(***************************************************************************)
C24_OneSweepSuffices ==
    (op = "eliminate_epsilon" /\ prev = from_regex(regex)) =>
        /\ automaton.start_states = prev.start_states
        /\ automaton.start_states # {}
        /\ automaton.start_states \subseteq States(automaton)
        /\ States(automaton) = ReachableFrom(automaton, automaton.start_states)
        /\ eliminate_dead(automaton) = automaton

\* a Regex whose Thompson automaton loses at least two states and keeps at
\* least three
C24_Witness ==
    /\ op = "eliminate_epsilon"
    /\ prev = from_regex(regex)
    /\ Cardinality(States(prev)) >= Cardinality(States(automaton)) + 2
    /\ Cardinality(States(automaton)) >= 3
    /\ automaton.accept_states # {}

(***************************************************************************)
(* C25.  from_finite_automaton returns a Regex without root for every      *)
(* automaton that accepts no word (no start state, no accept state, a      *)
(* start state without edges, accept states out of reach): the call        *)
(* completes, the row of new_start is found at the end, and the root is    *)
(* absent.                                                                 *)
(***************************************************************************)
C25_EmptyLanguageNoRegex ==
    (op = "from_finite_automaton" /\ ~AcceptsSomeWord(automaton)) => regex = NoRoot

(***************************************************************************)
(* C26.  The counters of min_word_len_exactly_symbol_count never go below  *)
(* zero, for every automaton, symbol and count: the count of nodes left in *)
(* the current level is never decremented at zero, and the final depth - 1 *)
(* is never taken of depth 0.  A build with overflow checks panics where a *)
(* counter would go below zero; a build without them returns a length that *)
(* wrapped around, which the model writes as a negative length.            *)
(***************************************************************************)
C26_CountersNeverUnderflow ==
    op = "min_word_len_exactly_symbol_count" =>
        /\ ~result.panicked
        /\ result.len >= 0

====
